---- MODULE Spec2Model ----
\* Model of the event-sourced Bank (src/src/lib.rs) and of the proptest
\* state-machine harness that drives it against SimBank (src/tests/lib.rs).
EXTENDS Integers, Sequences, FiniteSets, TLC

\* ---------------------------------------------------------------- bounds
\* Width in bits standing for the 64 bits of u64 / i64.
W == 2
\* Width in bits standing for the usize held by a sample::Index.
IndexBits == 2
\* Most accounts opened in one run.
MaxAccounts == 3
\* Most records in the transaction log in one run.
MaxLog == 2
\* Largest account id handed to the Bank directly (ids 0 .. MaxId).
MaxId == 1

\* ---------------------------------------------------------------- state
VARIABLES
    accounts,         \* Bank.accounts: Vec<u64>
    transactions,     \* Bank.transactions: Vec<Transaction>
    sim_accounts,     \* SimBank.accounts: Vec<SimAccount>
    next_account_id,  \* SimBank.next_account_id
    open_accounts,    \* RealBank.open_accounts: Vec<u64>
    overflow_checks,  \* build profile: TRUE = overflow checks on (dev/test), FALSE = wrapping (release)
    last,             \* the last call made on the Bank, with its return value
    outcome           \* how the last harness step ended

vars == <<accounts, transactions, sim_accounts, next_account_id,
          open_accounts, overflow_checks, last, outcome>>

\* ---------------------------------------------------------------- values
\* io::Result / Option / panic, as a tagged value ("Ok" and "Some" carry val).
Ok(v) == [tag |-> "Ok", val |-> v]
Err(kind) == [tag |-> kind, val |-> 0]
Some(v) == [tag |-> "Some", val |-> v]
None == [tag |-> "None", val |-> 0]
Panic == [tag |-> "Panic", val |-> 0]

\* i64::MIN and i64::MAX at width W.
I64Min == -(2^(W-1))
I64Max == 2^(W-1) - 1

\* Amounts handed to the operations: 1 and 2^63 (whose cast is i64::MIN).
Amounts == {1, I64Max + 1}
\* Account ids handed to the Bank directly, issued or not.
Ids == 0..MaxId
\* Values a sample::Index can hold.
IndexVals == 0..(2^IndexBits - 1)

\* `amount as i64`: two's-complement reinterpretation of a u64.
AsI64(amount) == IF amount > I64Max THEN amount - 2^W ELSE amount

\* Wrap a mathematical integer into the i64 range.
WrapI64(x) == ((x - I64Min) % (2^W)) + I64Min

\* i64 negation: overflows on i64::MIN (panic with overflow checks, wraps without).
Neg(x, checks) ==
    IF x = I64Min THEN (IF checks THEN Panic ELSE Ok(I64Min)) ELSE Ok(-x)

\* i64 addition: panic on overflow with overflow checks, wraps without.
CheckedAdd(a, b, checks) ==
    IF a + b > I64Max \/ a + b < I64Min
    THEN (IF checks THEN Panic ELSE Ok(WrapI64(a + b)))
    ELSE Ok(a + b)

\* i64 subtraction, likewise.
CheckedSub(a, b, checks) ==
    IF a - b > I64Max \/ a - b < I64Min
    THEN (IF checks THEN Panic ELSE Ok(WrapI64(a - b)))
    ELSE Ok(a - b)

\* enum Transaction
TxDeposit(to, amount) == [kind |-> "Deposit", to |-> to, amount |-> amount]
TxWithdraw(from, amount) == [kind |-> "Withdraw", from |-> from, amount |-> amount]
TxTransfer(from, to, amount) ==
    [kind |-> "Transfer", from |-> from, to |-> to, amount |-> amount]

\* ---------------------------------------------------------------- Bank
\* Bank::open, the id it allocates (a mutant without the `+ 1` precedes it).
new_account_no_increment(accts) ==
    IF Len(accts) = 0 THEN 0 ELSE accts[Len(accts)]

new_account(accts) ==
    IF Len(accts) = 0 THEN 0 ELSE accts[Len(accts)] + 1

\* Bank::open that returns the number of accounts instead of the new id (mutant).
open_returns_count(accts, can_overdraw) ==
    [accounts |-> Append(accts, new_account(accts)), ret |-> Ok(Len(accts) + 1)]

\* Bank::open that forgets to push the new id into the registry (mutant).
open_without_push(accts, can_overdraw) ==
    [accounts |-> accts, ret |-> Ok(new_account(accts))]

\* Bank::open: the flag is ignored, the id is pushed and returned.
open(accts, can_overdraw) ==
    [accounts |-> Append(accts, new_account(accts)), ret |-> Ok(new_account(accts))]

\* Bank::deposit that inserts the record at the front of the log (mutant).
deposit_at_front(txs, id, amount) ==
    [transactions |-> <<TxDeposit(id, amount)>> \o txs, ret |-> Ok(0)]

\* Bank::deposit
deposit(txs, id, amount) ==
    [transactions |-> Append(txs, TxDeposit(id, amount)), ret |-> Ok(0)]

\* Bank::withdraw
withdraw(txs, id, amount) ==
    [transactions |-> Append(txs, TxWithdraw(id, amount)), ret |-> Ok(0)]

\* Bank::transfer
transfer(txs, from, to, amount) ==
    [transactions |-> Append(txs, TxTransfer(from, to, amount)), ret |-> Ok(0)]

\* The closure with a Deposit arm that does not compare `to` with id (mutant).
Contribution_any_deposit(t, id, checks) ==
    IF t.kind = "Deposit"
    THEN Some(AsI64(t.amount))
    ELSE IF t.kind = "Withdraw"
    THEN (IF t.from = id
          THEN (LET n == Neg(AsI64(t.amount), checks)
                IN  IF n.tag = "Panic" THEN Panic ELSE Some(n.val))
          ELSE None)
    ELSE IF t.from = id
    THEN (LET n == Neg(AsI64(t.amount), checks)
          IN  IF n.tag = "Panic" THEN Panic ELSE Some(n.val))
    ELSE IF t.to = id
    THEN Some(AsI64(t.amount))
    ELSE None

\* The closure of Bank::balance's filter_map: one record's contribution to id.
Contribution(t, id, checks) ==
    IF t.kind = "Deposit"
    THEN (IF t.to = id THEN Some(AsI64(t.amount)) ELSE None)
    ELSE IF t.kind = "Withdraw"
    THEN (IF t.from = id
          THEN (LET n == Neg(AsI64(t.amount), checks)
                IN  IF n.tag = "Panic" THEN Panic ELSE Some(n.val))
          ELSE None)
    ELSE IF t.from = id
    THEN (LET n == Neg(AsI64(t.amount), checks)
          IN  IF n.tag = "Panic" THEN Panic ELSE Some(n.val))
    ELSE IF t.to = id
    THEN Some(AsI64(t.amount))
    ELSE None

\* Iterator::sum over the filtered log, from record i on, with accumulator acc.
RECURSIVE SumFrom(_, _, _, _, _)
SumFrom(txs, id, checks, i, acc) ==
    IF i > Len(txs) THEN Ok(acc)
    ELSE LET c == Contribution(txs[i], id, checks)
         IN  IF c.tag = "None" THEN SumFrom(txs, id, checks, i + 1, acc)
             ELSE IF c.tag = "Panic" THEN Panic
             ELSE LET s == CheckedAdd(acc, c.val, checks)
                  IN  IF s.tag = "Panic" THEN Panic
                      ELSE SumFrom(txs, id, checks, i + 1, s.val)

\* Bank::balance
balance(txs, id, checks) == SumFrom(txs, id, checks, 1, 0)

\* ---------------------------------------------------------------- Init
Init ==
    /\ accounts = <<>>
    /\ transactions = <<>>
    /\ sim_accounts = <<>>
    /\ next_account_id = 0
    /\ open_accounts = <<>>
    /\ overflow_checks \in BOOLEAN
    /\ last = [op |-> "none"]
    /\ outcome = "ok"

\* ------------------------------------------------- direct calls on the Bank
harness_unchanged == UNCHANGED <<sim_accounts, next_account_id, open_accounts, outcome>>

CallOpen ==
    /\ Len(accounts) < MaxAccounts
    /\ \E can_overdraw \in BOOLEAN :
         LET r == open(accounts, can_overdraw)
         IN  /\ accounts' = r.accounts
             /\ last' = [op |-> "open", ret |-> r.ret]
    /\ UNCHANGED <<transactions, overflow_checks>>
    /\ harness_unchanged

CallDeposit ==
    /\ Len(transactions) < MaxLog
    /\ \E id \in Ids, amount \in Amounts :
         LET r == deposit(transactions, id, amount)
         IN  /\ transactions' = r.transactions
             /\ last' = [op |-> "deposit", id |-> id, amount |-> amount, ret |-> r.ret]
    /\ UNCHANGED <<accounts, overflow_checks>>
    /\ harness_unchanged

CallWithdraw ==
    /\ Len(transactions) < MaxLog
    /\ \E id \in Ids, amount \in Amounts :
         LET r == withdraw(transactions, id, amount)
         IN  /\ transactions' = r.transactions
             /\ last' = [op |-> "withdraw", id |-> id, amount |-> amount, ret |-> r.ret]
    /\ UNCHANGED <<accounts, overflow_checks>>
    /\ harness_unchanged

CallTransfer ==
    /\ Len(transactions) < MaxLog
    /\ \E from \in Ids, to \in Ids, amount \in Amounts :
         LET r == transfer(transactions, from, to, amount)
         IN  /\ transactions' = r.transactions
             /\ last' = [op |-> "transfer", from |-> from, to |-> to,
                         amount |-> amount, ret |-> r.ret]
    /\ UNCHANGED <<accounts, overflow_checks>>
    /\ harness_unchanged

CallBalance ==
    /\ \E id \in Ids :
         last' = [op |-> "balance", id |-> id,
                  ret |-> balance(transactions, id, overflow_checks)]
    /\ UNCHANGED <<accounts, transactions, overflow_checks>>
    /\ harness_unchanged

Next == CallOpen \/ CallDeposit \/ CallWithdraw \/ CallTransfer \/ CallBalance

Spec == Init /\ [][Next]_vars

\* ------------------------------------------------------------- the harness
\* enum Transition
TrOpen == [kind |-> "Open"]
TrWithdraw(account_id, amount) ==
    [kind |-> "Withdraw", account_id |-> account_id, amount |-> amount]
TrDeposit(account_id, amount) ==
    [kind |-> "Deposit", account_id |-> account_id, amount |-> amount]
TrTransfer(from, to, amount) ==
    [kind |-> "Transfer", from |-> from, to |-> to, amount |-> amount]

\* sample::Index::index: the held value scaled into 0 .. size-1.
index(ix, size) == (size * ix) \div (2^IndexBits)

\* sample::Index::get / get_mut: the 1-based position it selects in a slice.
get(ix, slice) == index(ix, Len(slice)) + 1

\* SimBank::preconditions without the comparison of the two resolved ids (mutant).
preconditions_any_pair(accts, t) ==
    IF t.kind = "Open" THEN TRUE
    ELSE Len(accts) # 0

\* SimBank::preconditions
preconditions(accts, t) ==
    IF t.kind = "Open" THEN TRUE
    ELSE IF t.kind = "Withdraw" THEN Len(accts) # 0
    ELSE IF t.kind = "Deposit" THEN Len(accts) # 0
    ELSE IF Len(accts) = 0 THEN FALSE
    ELSE accts[get(t.from, accts)].id # accts[get(t.to, accts)].id

\* `balance -= amount as i64` / `balance += amount as i64` on one SimAccount.
sim_sub(accts, i, amount, checks) ==
    LET r == CheckedSub(accts[i].balance, AsI64(amount), checks)
    IN  IF r.tag = "Panic" THEN Panic
        ELSE Ok([accts EXCEPT ![i].balance = r.val])

sim_add(accts, i, amount, checks) ==
    LET r == CheckedAdd(accts[i].balance, AsI64(amount), checks)
    IN  IF r.tag = "Panic" THEN Panic
        ELSE Ok([accts EXCEPT ![i].balance = r.val])

\* SimBank::apply: the new SimBank, or a panic on arithmetic overflow.
sim_apply(accts, next_id, t, checks) ==
    IF t.kind = "Open"
    THEN Ok([accounts |-> Append(accts, [id |-> next_id, balance |-> 0]),
             next_account_id |-> next_id + 1])
    ELSE IF t.kind = "Withdraw"
    THEN (LET r == sim_sub(accts, get(t.account_id, accts), t.amount, checks)
          IN  IF r.tag = "Panic" THEN Panic
              ELSE Ok([accounts |-> r.val, next_account_id |-> next_id]))
    ELSE IF t.kind = "Deposit"
    THEN (LET r == sim_add(accts, get(t.account_id, accts), t.amount, checks)
          IN  IF r.tag = "Panic" THEN Panic
              ELSE Ok([accounts |-> r.val, next_account_id |-> next_id]))
    ELSE (LET r == sim_sub(accts, get(t.from, accts), t.amount, checks)
          IN  IF r.tag = "Panic" THEN Panic
              ELSE LET q == sim_add(r.val, get(t.to, r.val), t.amount, checks)
                   IN  IF q.tag = "Panic" THEN Panic
                       ELSE Ok([accounts |-> q.val, next_account_id |-> next_id]))

\* RealBank::apply, the "act" part: the Bank call the transition turns into.
real_apply(accts, txs, opened, t) ==
    IF t.kind = "Open"
    THEN (LET r == open(accts, FALSE)
          IN  [accounts |-> r.accounts, transactions |-> txs,
               open_accounts |-> Append(opened, r.ret.val),
               last |-> [op |-> "open", ret |-> r.ret]])
    ELSE IF t.kind = "Withdraw"
    THEN (LET account == opened[get(t.account_id, opened)]
              r == withdraw(txs, account, t.amount)
          IN  [accounts |-> accts, transactions |-> r.transactions,
               open_accounts |-> opened,
               last |-> [op |-> "withdraw", id |-> account,
                         amount |-> t.amount, ret |-> r.ret]])
    ELSE IF t.kind = "Deposit"
    THEN (LET account == opened[get(t.account_id, opened)]
              r == deposit(txs, account, t.amount)
          IN  [accounts |-> accts, transactions |-> r.transactions,
               open_accounts |-> opened,
               last |-> [op |-> "deposit", id |-> account,
                         amount |-> t.amount, ret |-> r.ret]])
    ELSE (LET from == opened[get(t.from, opened)]
              to == opened[get(t.to, opened)]
              r == transfer(txs, from, to, t.amount)
          IN  [accounts |-> accts, transactions |-> r.transactions,
               open_accounts |-> opened,
               last |-> [op |-> "transfer", from |-> from, to |-> to,
                         amount |-> t.amount, ret |-> r.ret]])

\* RealBank::apply, the "assert" part: the zipped loop over both account lists,
\* from position i on; it stops at the first panic or failed assert_eq!.
RECURSIVE assert_balances(_, _, _, _, _)
assert_balances(txs, opened, sim, checks, i) ==
    IF i > Len(opened) \/ i > Len(sim) THEN "ok"
    ELSE LET actual_balance == balance(txs, opened[i], checks)
             expected_balance == sim[i].balance
         IN  IF actual_balance.tag = "Panic" THEN "balance_panic"
             ELSE IF actual_balance.val # expected_balance THEN "balance_mismatch"
             ELSE assert_balances(txs, opened, sim, checks, i + 1)

\* One step of the walk: the transition passes SimBank::preconditions, is applied
\* to the SimBank, then to the RealBank, whose assertions run on the result.
WalkStep(t) ==
    /\ outcome = "ok"
    /\ preconditions(sim_accounts, t)
    /\ LET s == sim_apply(sim_accounts, next_account_id, t, overflow_checks)
       IN  IF s.tag = "Panic"
           THEN /\ outcome' = "sim_panic"
                /\ UNCHANGED <<accounts, transactions, sim_accounts,
                               next_account_id, open_accounts, last>>
           ELSE LET r == real_apply(accounts, transactions, open_accounts, t)
                IN  /\ sim_accounts' = s.val.accounts
                    /\ next_account_id' = s.val.next_account_id
                    /\ accounts' = r.accounts
                    /\ transactions' = r.transactions
                    /\ open_accounts' = r.open_accounts
                    /\ last' = r.last
                    /\ outcome' = assert_balances(r.transactions, r.open_accounts,
                                                  s.val.accounts, overflow_checks, 1)
    /\ UNCHANGED overflow_checks

ApplyOpen ==
    /\ Len(sim_accounts) < MaxAccounts
    /\ WalkStep(TrOpen)

ApplyWithdraw ==
    /\ Len(transactions) < MaxLog
    /\ \E account_id \in IndexVals, amount \in Amounts :
         WalkStep(TrWithdraw(account_id, amount))

ApplyDeposit ==
    /\ Len(transactions) < MaxLog
    /\ \E account_id \in IndexVals, amount \in Amounts :
         WalkStep(TrDeposit(account_id, amount))

ApplyTransfer ==
    /\ Len(transactions) < MaxLog
    /\ \E from \in IndexVals, to \in IndexVals, amount \in Amounts :
         WalkStep(TrTransfer(from, to, amount))

WalkNext == ApplyOpen \/ ApplyWithdraw \/ ApplyDeposit \/ ApplyTransfer

WalkSpec == Init /\ [][WalkNext]_vars

\* ------------------------------------------------------------ properties
\* Ids issued so far by Bank::open.
Issued == {accounts[i] : i \in 1..Len(accounts)}

\* Positions the harness compares: those present in both account lists.
Zipped == {i \in 1..Len(open_accounts) : i <= Len(sim_accounts)}

\* C1: after every accepted transition of a walk, for every account known to
\* both models, Bank::balance(id) returns exactly the balance the SimBank
\* stores for that account.
C1_DifferentialEquivalence ==
    \A i \in Zipped :
        balance(transactions, open_accounts[i], overflow_checks)
            = Ok(sim_accounts[i].balance)

\* The signed sum the claim speaks of, over unbounded integers: +amount for a
\* Deposit to id, -amount for a Withdraw from id, -amount for a Transfer from
\* id and +amount for a Transfer to id (both for a Transfer from id to id).
RECURSIVE SignedSum(_, _)
SignedSum(txs, id) ==
    IF Len(txs) = 0 THEN 0
    ELSE LET t == txs[Len(txs)]
             rest == SignedSum(SubSeq(txs, 1, Len(txs) - 1), id)
         IN  IF t.kind = "Deposit"
             THEN rest + (IF t.to = id THEN t.amount ELSE 0)
             ELSE IF t.kind = "Withdraw"
             THEN rest - (IF t.from = id THEN t.amount ELSE 0)
             ELSE rest - (IF t.from = id THEN t.amount ELSE 0)
                       + (IF t.to = id THEN t.amount ELSE 0)

\* C2: for every sequence of accepted operations and every account id,
\* balance(id) is the signed sum of the account's contributions over the
\* whole transaction log.
C2_BalanceIsSignedSum ==
    \A id \in Ids :
        balance(transactions, id, overflow_checks) = Ok(SignedSum(transactions, id))

\* balance(a) + balance(b), when both calls return.
PairSum(txs, a, b, checks) ==
    LET x == balance(txs, a, checks)
        y == balance(txs, b, checks)
    IN  IF x.tag = "Ok" /\ y.tag = "Ok" THEN Ok(x.val + y.val) ELSE Panic

\* C3: every transfer(from, to, amount) leaves balance(from) + balance(to)
\* as it was before the call.
C3_ConservationUnderTransfer ==
    [][last'.op = "transfer" =>
          PairSum(transactions', last'.from, last'.to, overflow_checks)
              = PairSum(transactions, last'.from, last'.to, overflow_checks)]_vars

\* C4: an account opened with allow_overdraft = false (every account the
\* harness opens) never has a balance below zero.
C4_OverdraftGate ==
    \A i \in 1..Len(open_accounts) :
        LET b == balance(transactions, open_accounts[i], overflow_checks)
        IN  b.tag = "Ok" => b.val >= 0

\* C5: transfer(from, to, amount) with from = to fails with InvalidTransfer
\* and appends nothing to the transaction log.
C5_SelfTransferRejected ==
    [][(last'.op = "transfer" /\ last'.from = last'.to) =>
          (last'.ret = Err("InvalidTransfer") /\ transactions' = transactions)]_vars

\* C6: the first open returns 0, every open returns an id strictly greater
\* than all ids issued before it, and no id is issued twice.
C6_MonotonicIssuance ==
    /\ Len(accounts) > 0 => accounts[1] = 0
    /\ \A i \in 1..Len(accounts) : \A j \in 1..Len(accounts) :
          i < j => accounts[i] < accounts[j]
    /\ last.op = "open" =>
          /\ last.ret = Ok(accounts[Len(accounts)])
          /\ \A i \in 1..(Len(accounts) - 1) : accounts[i] < last.ret.val

\* A third open has just returned, after records were appended to the log.
C6_Witness ==
    /\ last.op = "open"
    /\ Len(accounts) >= 3
    /\ Len(transactions) > 0

\* C7: deposit(id, amount) for an id never issued by open fails with
\* AccountNotFound and leaves the log unchanged.
C7_DepositUnknownAccount ==
    [][(last'.op = "deposit" /\ last'.id \notin Issued) =>
          (last'.ret = Err("AccountNotFound") /\ transactions' = transactions)]_vars

\* C8: balance(id) fails with AccountNotFound for every id never issued by open.
C8_BalanceUnknownAccount ==
    (last.op = "balance" /\ last.id \notin Issued) =>
        last.ret = Err("AccountNotFound")

\* C9: immediately after open returns id, balance(id) is 0, whatever calls
\* came before.
C9_NewAccountStartsAtZero ==
    last.op = "open" =>
        balance(transactions, last.ret.val, overflow_checks) = Ok(0)

\* C11: a transfer reaches the Bank only with two distinct account ids, and
\* only while at least two accounts exist.
C11_TransferPrecondition ==
    last.op = "transfer" =>
        /\ last.from # last.to
        /\ Len(sim_accounts) >= 2
        /\ Len(accounts) >= 2

\* A transfer has reached the Bank while a third account exists.
C11_Witness ==
    /\ last.op = "transfer"
    /\ Len(transactions) > 0
    /\ Len(accounts) >= 3

\* C12: every deposit, withdraw and transfer that reaches the Bank comes after
\* an open and names only ids that Bank::open has returned.
C12_OnlyIssuedAccounts ==
    /\ last.op \in {"deposit", "withdraw"} =>
          (Len(accounts) >= 1 /\ last.id \in Issued)
    /\ last.op = "transfer" =>
          (Len(accounts) >= 1 /\ last.from \in Issued /\ last.to \in Issued)
    /\ Len(transactions) > 0 => Len(accounts) >= 1

\* A withdraw has reached the Bank on the second of two accounts.
C12_Witness ==
    /\ last.op = "withdraw"
    /\ last.id = 1
    /\ Len(accounts) >= 2

\* The record a deposit, withdraw or transfer call is to append.
CallRecord(call) ==
    IF call.op = "deposit" THEN TxDeposit(call.id, call.amount)
    ELSE IF call.op = "withdraw" THEN TxWithdraw(call.id, call.amount)
    ELSE TxTransfer(call.from, call.to, call.amount)

\* C15: every deposit, withdraw and transfer appends exactly its one record to
\* the end of the log and leaves the earlier records in place; open and balance
\* leave the log unchanged; every earlier log is a prefix of every later one.
C15_AppendOnlyLog ==
    [][/\ (last'.op \in {"deposit", "withdraw", "transfer"} /\ last'.ret.tag = "Ok") =>
              transactions' = Append(transactions, CallRecord(last'))
       /\ last'.op \in {"open", "balance"} => transactions' = transactions
       /\ Len(transactions') >= Len(transactions)
       /\ SubSeq(transactions', 1, Len(transactions)) = transactions]_vars

\* A deposit has appended a record behind a different earlier record.
C15_Witness ==
    /\ last.op = "deposit"
    /\ Len(transactions) >= 2
    /\ transactions[Len(transactions)] = CallRecord(last)
    /\ transactions[1] # transactions[Len(transactions)]

\* C16: the harness's list of ids returned by Bank::open and the SimBank's
\* account list have the same length and the same id at every position, so
\* every selector resolves to the same id on both sides.
C16_AccountListsInLockstep ==
    /\ Len(open_accounts) = Len(sim_accounts)
    /\ \A i \in Zipped : open_accounts[i] = sim_accounts[i].id
    /\ Len(sim_accounts) > 0 =>
          \A ix \in IndexVals :
              open_accounts[get(ix, open_accounts)] = sim_accounts[get(ix, sim_accounts)].id

\* Two accounts are open on both sides and a record has been logged.
C16_Witness ==
    /\ Len(open_accounts) >= 2
    /\ Len(sim_accounts) >= 2
    /\ Len(transactions) > 0

\* C17: a deposit of amount raises balance(id) by exactly amount and a withdraw
\* of amount lowers it by exactly amount, for every u64 amount, and no balance
\* computation wraps around or overflows.
C17_ConversionPreservesValue ==
    [][(last'.op \in {"deposit", "withdraw"} /\ Len(transactions') = Len(transactions) + 1) =>
          LET before == balance(transactions, last'.id, overflow_checks)
              after == balance(transactions', last'.id, overflow_checks)
          IN  /\ before.tag = "Ok"
              /\ after.tag = "Ok"
              /\ last'.op = "deposit" => after.val = before.val + last'.amount
              /\ last'.op = "withdraw" => after.val = before.val - last'.amount]_vars

\* The accounts a call names.
Touched(call) ==
    IF call.op \in {"deposit", "withdraw"} THEN {call.id}
    ELSE IF call.op = "transfer" THEN {call.from, call.to}
    ELSE {}

RECURSIVE NetDeposited(_)
NetDeposited(txs) ==
    IF Len(txs) = 0 THEN 0
    ELSE LET t == txs[Len(txs)]
             rest == NetDeposited(SubSeq(txs, 1, Len(txs) - 1))
         IN  IF t.kind = "Deposit" THEN rest + t.amount
             ELSE IF t.kind = "Withdraw" THEN rest - t.amount
             ELSE rest

\* Sum of balance(id) over the first n opened accounts, when every call returns.
RECURSIVE SumOfBalances(_)
SumOfBalances(n) ==
    IF n = 0 THEN Ok(0)
    ELSE LET rest == SumOfBalances(n - 1)
             b == balance(transactions, open_accounts[n], overflow_checks)
         IN  IF rest.tag = "Ok" /\ b.tag = "Ok" THEN Ok(rest.val + b.val) ELSE Panic

\* C19: after every accepted transition the balances of all opened accounts
\* add up to the deposited total minus the withdrawn total.
C19_GlobalConservation ==
    SumOfBalances(Len(open_accounts)) = Ok(NetDeposited(transactions))

====
